---- MODULE Spec2Model ----
(***************************************************************************)
(* Bangla-Language-Bridge: the client-side audio pipeline of the           *)
(* translator App component (src/App.tsx, the freemium version, lines      *)
(* 330-904) and the binary audio codec helpers of src/utils.ts.            *)
(*                                                                         *)
(* Two state machines share this module:                                   *)
(*   CodecSpec  the pure codec functions applied to bounded inputs         *)
(*   Spec       the App component: debounce/translate pipeline, capture    *)
(*              sessions, playback controller and freemium counter         *)
(* Spec is explored in slices (PipelineSpec, CaptureSpec, PlaybackSpec,    *)
(* PlaybackHandlerSpec), each with the actions of one part of the page.    *)
(***************************************************************************)
EXTENDS Integers, Sequences, FiniteSets, TLC

(***************************************************************************)
(* Bounds of the model.                                                    *)
(***************************************************************************)
\* longest ArrayBuffer handed to the codec functions
MaxLen == 3

(***************************************************************************)
(* ---------------------------  src/utils.ts  ---------------------------  *)
(***************************************************************************)
VARIABLES
    codecPc,    \* "idle" (App machine), "call" (inputs drawn), "wav" (pcmToWavBlob returned)
    pcmData,    \* the Uint8Array argument: [buffer, byteOffset, byteLength]
    wavParams,  \* <<sampleRate, numChannels, bitsPerSample>>
    wavBlob,    \* the bytes of the Blob pcmToWavBlob returned
    audioBuffer \* what decodeAudioData settled with: [error, channels]

codecVars == <<codecPc, pcmData, wavParams, wavBlob, audioBuffer>>

Pow2(n) == 2 ^ n

\* byte values used to fill buffers (low, middle and high bit patterns)
SampleBytes == {0, 1, 255}

\* every ArrayBuffer content of at most n bytes
Buffers(n) == UNION {[1..k -> SampleBytes] : k \in 0..n}

\* a Uint8Array is a window [byteOffset, byteOffset + byteLength) on an ArrayBuffer
Uint8Arrays(n) ==
    {[buffer |-> b, byteOffset |-> o, byteLength |-> l] :
        b \in Buffers(n), o \in 0..n, l \in 0..n}

ValidUint8Array(a) == a.byteOffset + a.byteLength <= Len(a.buffer)

\* the elements a[0] .. a[byteLength-1] of a Uint8Array
Elements(a) == [i \in 1..a.byteLength |-> a.buffer[a.byteOffset + i]]

\* new ArrayBuffer(n): zero-filled
NewArrayBuffer(n) == [i \in 1..n |-> 0]

\* char codes of the four-character chunk tags
TagRIFF == <<82, 73, 70, 70>>
TagWAVE == <<87, 65, 86, 69>>
TagFmt  == <<102, 109, 116, 32>>
TagData == <<100, 97, 116, 97>>

\* DataView.setUint8(byteOffset, value): ToUint8 of the value
setUint8(view, byteOffset, value) ==
    [view EXCEPT ![byteOffset + 1] = value % 256]

\* DataView.setUint16(byteOffset, value, littleEndian): ToUint16, two bytes
setUint16(view, byteOffset, value, littleEndian) ==
    LET v  == value % Pow2(16)
        lo == v % 256
        hi == v \div 256
    IN  IF littleEndian
        THEN [view EXCEPT ![byteOffset + 1] = lo, ![byteOffset + 2] = hi]
        ELSE [view EXCEPT ![byteOffset + 1] = hi, ![byteOffset + 2] = lo]

\* a setUint32 that ignores the littleEndian flag (network byte order)
setUint32BigEndian(view, byteOffset, value, littleEndian) ==
    LET hi16 == value \div Pow2(16)
        lo16 == value % Pow2(16)
    IN  setUint16(setUint16(view, byteOffset, hi16, FALSE), byteOffset + 2, lo16, FALSE)

\* DataView.setUint32(byteOffset, value, littleEndian): ToUint32, four bytes.
\* The value is split in 16-bit halves so that no intermediate exceeds the
\* value itself; hi16 % 2^16 is ToUint32's reduction modulo 2^32.
setUint32(view, byteOffset, value, littleEndian) ==
    LET hi16 == (value \div Pow2(16)) % Pow2(16)
        lo16 == value % Pow2(16)
    IN  IF littleEndian
        THEN setUint16(setUint16(view, byteOffset, lo16, TRUE), byteOffset + 2, hi16, TRUE)
        ELSE setUint16(setUint16(view, byteOffset, hi16, FALSE), byteOffset + 2, lo16, FALSE)

\* ---- decode (18-26): window.atob, then one byte per char code ----
\* A base64 string is a sequence of codes: 0..63 the alphabet, 64 '=', 65
\* any other character.
\* atob first drops one or two trailing '=' when the length is a multiple of 4
RECURSIVE StripPadding(_, _)
StripPadding(str, n) ==
    IF n > 0 /\ str # <<>> /\ str[Len(str)] = 64
    THEN StripPadding(SubSeq(str, 1, Len(str) - 1), n - 1)
    ELSE str

AtobData(str) == IF Len(str) % 4 = 0 THEN StripPadding(str, 2) ELSE str

\* atob throws InvalidCharacterError unless this holds
atobValid(str) ==
    /\ Len(AtobData(str)) % 4 # 1
    /\ \A i \in 1..Len(AtobData(str)) : AtobData(str)[i] < 64

\* the binary string of atob: 4 characters give 3 bytes, a tail of 2 gives
\* 1 byte and a tail of 3 gives 2 bytes (the spare bits are dropped)
RECURSIVE atob(_)
atob(str) ==
    LET d == AtobData(str)
    IN  IF Len(d) >= 4
        THEN <<d[1] * 4 + d[2] \div 16, (d[2] % 16) * 16 + d[3] \div 4, (d[3] % 4) * 64 + d[4]>>
             \o atob(SubSeq(d, 5, Len(d)))
        ELSE IF Len(d) = 3
        THEN <<d[1] * 4 + d[2] \div 16, (d[2] % 16) * 16 + d[3] \div 4>>
        ELSE IF Len(d) = 2
        THEN <<d[1] * 4 + d[2] \div 16>>
        ELSE <<>>

\* decode(base64): a fresh Uint8Array that owns its buffer
decode(base64) ==
    LET binaryString == atob(base64)
    IN  [buffer |-> binaryString, byteOffset |-> 0, byteLength |-> Len(binaryString)]

\* writeString(view, offset, string): one byte per char code
RECURSIVE writeString(_, _, _)
writeString(view, offset, string) ==
    IF string = <<>> THEN view
    ELSE writeString(setUint8(view, offset, Head(string)), offset + 1, Tail(string))

\* ToNumber -> ToUintN: a non-negative number given in eighths is truncated
\* to an integer (bitsPerSample / 8 is a fraction when bitsPerSample is no
\* multiple of 8; every other operand is an integer)
TruncEighths(x8) == x8 \div 8

\* the copy loop of pcmToWavBlob: pcmBytes is a view on the WHOLE underlying
\* buffer (new Uint8Array(pcmData.buffer)), indexed from 0
RECURSIVE CopyPcm(_, _, _, _)
CopyPcm(view, pcmBytes, i, dataSize) ==
    IF i >= dataSize THEN view
    ELSE CopyPcm(setUint8(view, 44 + i, pcmBytes[i + 1]), pcmBytes, i + 1, dataSize)

\* pcmToWavBlob(pcmData, sampleRate, numChannels, bitsPerSample): the bytes of the Blob
pcmToWavBlob(data, sampleRate, numChannels, bitsPerSample) ==
    LET dataSize    == data.byteLength
        buffer      == NewArrayBuffer(44 + dataSize)
        blockAlign8 == numChannels * bitsPerSample      \* blockAlign, in eighths
        byteRate8   == sampleRate * blockAlign8         \* byteRate, in eighths
        v1  == writeString(buffer, 0, TagRIFF)
        v2  == setUint32(v1, 4, 36 + dataSize, TRUE)
        v3  == writeString(v2, 8, TagWAVE)
        v4  == writeString(v3, 12, TagFmt)
        v5  == setUint32(v4, 16, 16, TRUE)
        v6  == setUint16(v5, 20, 1, TRUE)
        v7  == setUint16(v6, 22, numChannels, TRUE)
        v8  == setUint32(v7, 24, sampleRate, TRUE)
        v9  == setUint32(v8, 28, TruncEighths(byteRate8), TRUE)
        v10 == setUint16(v9, 32, TruncEighths(blockAlign8), TRUE)
        v11 == setUint16(v10, 34, bitsPerSample, TRUE)
        v12 == writeString(v11, 36, TagData)
        v13 == setUint32(v12, 40, dataSize, TRUE)
    IN  CopyPcm(v13, data.buffer, 0, dataSize)

\* ---- decodeAudioData (29-46) ----
\* element k (from 0) of an Int16Array over bytes: two bytes, low first, as
\* a two's-complement number
Int16At(bytes, k) ==
    LET u == bytes[2 * k + 1] + 256 * bytes[2 * k + 2]
    IN  IF u >= Pow2(15) THEN u - Pow2(16) ELSE u

\* new Int16Array(buffer): a view on the whole ArrayBuffer
Int16Array(buffer) == [k \in 1..(Len(buffer) \div 2) |-> Int16At(buffer, k - 1)]

\* what decodeAudioData returns before it has run
NoAudioBuffer == [error |-> "none", channels |-> <<>>]

\* decodeAudioData(data, ctx, sampleRate, numChannels). Channel values are
\* kept in units of 1/32768, so sample / 32768.0 is the sample's number.
\* new Int16Array throws RangeError on a buffer of odd byte length;
\* createBuffer takes its length as an unsigned long (the quotient is
\* truncated) and throws NotSupportedError for a length of 0; the loop's
\* writes past the end of a channel's Float32Array are dropped.
decodeAudioData(data, numChannels) ==
    IF Len(data.buffer) % 2 # 0 THEN [error |-> "RangeError", channels |-> <<>>]
    ELSE LET dataInt16  == Int16Array(data.buffer)
             frameCount == Len(dataInt16) \div numChannels
         IN  IF frameCount = 0 THEN [error |-> "NotSupportedError", channels |-> <<>>]
             ELSE [error |-> "none",
                   channels |-> [channel \in 1..numChannels |->
                       [i \in 1..frameCount |->
                           dataInt16[(i - 1) * numChannels + (channel - 1) + 1]]]]

(***************************************************************************)
(* ----------------------  src/App.tsx (lines 330-904)  -----------------  *)
(***************************************************************************)
VARIABLES
    \* React state (useState)
    inputText, outputText, phoneticText, sourceLanguage, targetLanguage,
    selectedVoice, outputAudio, isLoading, error, isRecording,
    isPlayingAudio, isPaymentModalOpen, usageCount, subscriptionPlan,
    \* the browser around the component
    localStorage,   \* [usageCount: the stored string as code units, subscriptionPlan: <<string>>],
                    \* <<>> for an absent key or ''
    timer,          \* the pending debounce timeouts, oldest first: the ms each has been pending
    pending,        \* the outstanding remote calls (translate, phonetic, tts)
    mounted,        \* FALSE once the component has been unmounted
    \* history
    translateCalls, \* translateText calls issued since input, languages or voice last changed
    quiet,          \* ms since input, languages or voice last changed, up to DebounceMs
    latestRun       \* <<text, from, to, voice>> of the most recently started handleTranslate run

reactVars == <<inputText, outputText, phoneticText, sourceLanguage, targetLanguage,
               selectedVoice, outputAudio, isLoading, error, isRecording,
               isPlayingAudio, isPaymentModalOpen, usageCount, subscriptionPlan>>
pipelineVars == <<localStorage, timer, pending, mounted, translateCalls, quiet, latestRun>>

\* capture & visualization engine
VARIABLES
    sessions,               \* one record per handleStartRecording call that passed its guard
    mediaRecorderRef,       \* session whose MediaRecorder the ref holds, 0 for null
    audioChunksRef,         \* the chunk list: the session each pushed chunk came from
    audioVisualizerRef,     \* session whose analyser the ref holds, 0 for null
    visualizerAnimationRef, \* session whose draw loop requested the frame id the ref holds, 0 for null
    lastStart,              \* how the last handleStartRecording call went: none, rejected, requested
    stopIgnored             \* history: a handleStopRecording call has returned without calling stop()

captureVars == <<sessions, mediaRecorderRef, audioChunksRef, audioVisualizerRef,
                 visualizerAnimationRef, lastStart, stopIgnored>>

\* playback controller
VARIABLES
    audioElementRef,    \* TRUE once handlePlayAudio has created the Audio element
    audioSrc,           \* audio.src: an object URL id, 0 for none or ''
    audioState,         \* "idle", "starting" (play() pending), "playing", "paused"
    currentAudioUrlRef, \* object URL id the ref holds, 0 for null
    liveUrls,           \* object URLs created and not yet revoked
    lastPlay,           \* history: how the latest handlePlayAudio call went
    lastDownload,       \* history: how the latest handleDownloadAudio call went
    savedFile,          \* the file the latest click of the download link saved: [language, download, bytes]
    playbackRate,       \* the playbackRate state, in hundredths
    audioRate           \* audio.playbackRate of the element, in hundredths

playbackVars == <<audioElementRef, audioSrc, audioState, currentAudioUrlRef, liveUrls,
                  lastPlay, lastDownload, savedFile, playbackRate, audioRate>>

\* the file name computation of handleDownloadAudio, on its own
VARIABLES
    nameCall    \* [targetLanguage, download]: the name given and the a.download computed

nameVars == <<nameCall>>

\* pcmToMp3Blob (utils.ts 108-128), on its own
VARIABLES
    mp3Call     \* the call: its input, its loop variable, the encoder calls made, its result

mp3Vars == <<mp3Call>>

\* no call of pcmToMp3Blob
NoMp3Call ==
    [bufferLength |-> 0,    \* pcmData.buffer.byteLength
     length |-> 0,          \* dataInt16.length
     i |-> 0,               \* the loop variable
     calls |-> <<>>,        \* the encoder calls in order: [op, begin, end, size]
     mp3Data |-> <<>>,      \* the outputs pushed: the number of the call each came from
     blob |-> <<>>]         \* the parts of the Blob returned

\* ---- value domains ----
InputTexts == {"a", "b"}
BlankTexts == {"", " "}                 \* !text.trim()
Languages  == {"English", "Spanish"}    \* two of SUPPORTED_LANGUAGES
DEFAULT_TARGET_LANGUAGE == "English"
DEFAULT_SOURCE_LANGUAGE == "Spanish"
Voices        == {"Kore", "Puck"}        \* SUPPORTED_VOICES codes
PremiumVoices == {"Puck"}                \* those with premium: true
DEFAULT_VOICE == "Kore"
Plans == {"FREE", "PREMIUM", "PRO"}
\* the two limits of ./constants, taken small
FREE_TRANSLATION_LIMIT == 2
PREMIUM_TRANSLATION_LIMIT == 3
\* outstanding remote calls the model follows at once
MaxPending == 2

NoText == <<>>      \* '' as an output text
Null   == <<>>      \* null as outputAudio

\* the base64 payloads textToSpeech may return: "AQID" and a malformed one
\* (codes 0..63 are the base64 alphabet, 64 is '=', 65 any other character)
ValidPayload == <<0, 16, 8, 3>>
Payloads == {ValidPayload, <<0, 65>>}

\* what translateText(text, from, to) resolves to
Translated(text, from, to) == <<text, from, to>>
\* what textToSpeech(text, language, voice) resolves to with payload d
Speech(text, language, voice, d) == <<text, language, voice, d>>

\* a step of the mounted component; the codec machine is at rest meanwhile
AppStep == mounted /\ UNCHANGED <<codecVars, nameVars, mp3Vars>>

\* the React state as one record
Cur ==
    [inputText |-> inputText, outputText |-> outputText, phoneticText |-> phoneticText,
     sourceLanguage |-> sourceLanguage, targetLanguage |-> targetLanguage,
     selectedVoice |-> selectedVoice, outputAudio |-> outputAudio,
     isLoading |-> isLoading, error |-> error, isRecording |-> isRecording,
     isPlayingAudio |-> isPlayingAudio, isPaymentModalOpen |-> isPaymentModalOpen,
     usageCount |-> usageCount, subscriptionPlan |-> subscriptionPlan]

\* an outstanding remote call with the arguments its continuation closes over;
\* blob is the recording handed to transcribeAudio (<<>> for the other calls)
Call(kind, text, from, to, lang, voice, inRun) ==
    [kind |-> kind, text |-> text, from |-> from, to |-> to, lang |-> lang,
     voice |-> voice, inRun |-> inRun, blob |-> <<>>, n |-> 1]

\* p with call c added; n tells apart outstanding calls with equal arguments
AddCall(p, c) ==
    LET k == CHOOSE k \in 1..(Cardinality(p) + 1) :
                 /\ [c EXCEPT !.n = k] \notin p
                 /\ \A j \in 1..(k - 1) : [c EXCEPT !.n = j] \in p
    IN  p \cup {[c EXCEPT !.n = k]}

\* deps of the debounce effect: inputText, sourceLanguage, targetLanguage,
\* selectedVoice, isRecording and handleCoreAction, which is re-created when
\* subscriptionPlan or usageCount changes (handleTranslate is stable)
DebounceDeps(s) ==
    <<s.inputText, s.sourceLanguage, s.targetLanguage, s.selectedVoice,
      s.isRecording, s.subscriptionPlan, s.usageCount>>

\* deps of the regeneration effect (handleGenerateAudio is stable)
RegenDeps(s) == <<s.selectedVoice, s.targetLanguage, s.outputText, s.subscriptionPlan>>

\* the condition of the regeneration effect, on the state it renders with
RegenCondition(s) ==
    /\ s.outputText # NoText
    /\ s.outputAudio # Null
    /\ (s.subscriptionPlan # "FREE" \/ s.selectedVoice \notin PremiumVoices)

\* the part of the state whose change starts a new quiet period
QuietDeps(s) == <<s.inputText, s.sourceLanguage, s.targetLanguage, s.selectedVoice>>

\* the delay of the debounce setTimeout (485)
DebounceMs == 1000

\* an effect that leaves its timeout pending when it re-runs
ClearTimeoutMissing(t) == t

\* the cleanup of the debounce effect (487-489): clearTimeout(handler), the
\* timeout its last run set; nothing to clear once that one has fired
ClearTimeout(t) == IF t = <<>> THEN t ELSE SubSeq(t, 1, Len(t) - 1)

\* the debounce effect re-runs with state n (474-490): the cleanup, then a
\* new timeout unless a recording is in progress
DebounceEffect(t, n) ==
    IF n.isRecording THEN ClearTimeout(t) ELSE Append(ClearTimeout(t), 0)

\* One render after a handler (or a continuation of an async handler) has
\* run: n is the React state the batched setState calls produced, t the
\* debounce timeouts pending after the handler, p the outstanding calls
\* after it, issued the translateText calls it made. The effects whose deps
\* changed run: the debounce effect clears its timer and, unless recording,
\* sets a new one; the regeneration effect calls handleGenerateAudio, which
\* sets outputAudio to null and issues a textToSpeech call.
Commit(n, t, p, issued) ==
    LET regen == RegenDeps(n) # RegenDeps(Cur) /\ RegenCondition(n)
        p2 == IF regen
              THEN AddCall(p, Call("tts", n.outputText[1], n.outputText[2], n.outputText[3],
                                      n.targetLanguage, n.selectedVoice, FALSE))
              ELSE p
    IN  /\ Cardinality(p2) <= MaxPending
        /\ inputText' = n.inputText
        /\ outputText' = n.outputText
        /\ phoneticText' = n.phoneticText
        /\ sourceLanguage' = n.sourceLanguage
        /\ targetLanguage' = n.targetLanguage
        /\ selectedVoice' = n.selectedVoice
        /\ outputAudio' = IF regen THEN Null ELSE n.outputAudio
        /\ isLoading' = n.isLoading
        /\ error' = n.error
        /\ isRecording' = n.isRecording
        /\ isPlayingAudio' = n.isPlayingAudio
        /\ isPaymentModalOpen' = n.isPaymentModalOpen
        /\ usageCount' = n.usageCount
        /\ subscriptionPlan' = n.subscriptionPlan
        /\ timer' = IF DebounceDeps(n) # DebounceDeps(Cur) THEN DebounceEffect(t, n) ELSE t
        /\ pending' = p2
        /\ translateCalls' = (IF QuietDeps(n) # QuietDeps(Cur) THEN 0 ELSE translateCalls) + issued
        /\ quiet' = IF QuietDeps(n) # QuietDeps(Cur) THEN 0 ELSE quiet

\* ---- numbers and their strings ----
\* usageCount is an integer or NaN, which this value stands for
NaN == -1000000

\* a < b on such numbers: false when either is NaN
LessThan(a, b) == a # NaN /\ b # NaN /\ a < b

\* Number.prototype.toString of an integer or NaN, as code units
RECURSIVE DecimalDigits(_)
DecimalDigits(n) ==
    IF n < 10 THEN <<48 + n>> ELSE DecimalDigits(n \div 10) \o <<48 + (n % 10)>>

toString(n) ==
    IF n = NaN THEN <<78, 97, 78>>
    ELSE IF n < 0 THEN <<45>> \o DecimalDigits(-n)
    ELSE DecimalDigits(n)

\* parseInt(string, 10): leading white space is skipped, a sign is taken,
\* then the digits up to the first other character; NaN without a digit
RECURSIVE TrimStart(_)
TrimStart(str) ==
    IF str # <<>> /\ Head(str) \in {9, 10, 13, 32} THEN TrimStart(Tail(str)) ELSE str

RECURSIVE DigitPrefix(_)
DigitPrefix(str) ==
    IF str # <<>> /\ Head(str) \in 48..57 THEN <<Head(str)>> \o DigitPrefix(Tail(str)) ELSE <<>>

RECURSIVE DigitsValue(_)
DigitsValue(digits) ==
    IF digits = <<>> THEN 0
    ELSE 10 * DigitsValue(SubSeq(digits, 1, Len(digits) - 1)) + (digits[Len(digits)] - 48)

parseInt(string) ==
    LET trimmed == TrimStart(string)
        signed  == trimmed # <<>> /\ Head(trimmed) \in {43, 45}
        digits  == DigitPrefix(IF signed THEN Tail(trimmed) ELSE trimmed)
    IN  IF digits = <<>> THEN NaN
        ELSE IF signed /\ Head(trimmed) = 45 THEN -DigitsValue(digits)
        ELSE DigitsValue(digits)

\* ---- the mount effect (370-383) ----
\* usageCount after it: parseInt of a stored string that is not ''
MountUsage(storedUsage) == IF storedUsage # <<>> THEN parseInt(storedUsage) ELSE 0

\* subscriptionPlan after it: a stored string that names a plan
MountPlan(storedPlan) ==
    IF storedPlan # <<>> /\ storedPlan[1] \in Plans THEN storedPlan[1] ELSE "FREE"

\* ---- handleCoreAction (385-406) ----
PlanLimit(plan) ==
    IF plan = "PREMIUM" THEN PREMIUM_TRANSLATION_LIMIT ELSE FREE_TRANSLATION_LIMIT

\* a handleCoreAction without the limit check
CoreActionRunsAlways(s) == TRUE

\* whether handleCoreAction runs the action it is given
CoreActionRuns(s) ==
    s.subscriptionPlan = "PRO" \/ LessThan(s.usageCount, PlanLimit(s.subscriptionPlan))

\* a handleCoreAction that refuses without a message
CoreActionStateSilent(s) ==
    IF s.subscriptionPlan # "PRO" /\ CoreActionRuns(s)
    THEN [s EXCEPT !.usageCount = s.usageCount + 1]
    ELSE s

\* the state handleCoreAction leaves before it calls the action, or when it refuses
CoreActionState(s) ==
    IF s.subscriptionPlan = "PRO" THEN s
    ELSE IF CoreActionRuns(s)
         THEN [s EXCEPT !.usageCount = s.usageCount + 1]
         ELSE [s EXCEPT !.error = "usage limit", !.isPaymentModalOpen = TRUE]

\* a handleCoreAction that counts in memory only
CoreActionStorageMissing(s) == localStorage

\* localStorage after handleCoreAction (setItem('usageCount', newCount.toString()))
CoreActionStorage(s) ==
    IF s.subscriptionPlan # "PRO" /\ CoreActionRuns(s)
    THEN [localStorage EXCEPT !.usageCount = toString(s.usageCount + 1)]
    ELSE localStorage

\* ---- handleTranslate (441-472) and handleGenerateAudio (428-439) ----
\* the synchronous head of handleTranslate for a non-blank text
TranslateStart(s) ==
    [s EXCEPT !.isLoading = TRUE, !.error = "null", !.outputText = NoText,
              !.outputAudio = Null, !.phoneticText = NoText]

\* the blank-text branch, also the else branch of the timer callback
ClearOutputs(s) ==
    [s EXCEPT !.outputText = NoText, !.outputAudio = Null, !.phoneticText = NoText]

\* the callback of the oldest pending debounce timeout runs (477-485)
TimerFires ==
    /\ AppStep /\ timer # <<>>
    /\ IF inputText \notin BlankTexts
       THEN LET s == CoreActionState(Cur)
            IN  IF CoreActionRuns(Cur)
                THEN /\ Commit(TranslateStart(s), Tail(timer),
                               AddCall(pending, Call("translate", inputText, sourceLanguage,
                                                     targetLanguage, targetLanguage,
                                                     selectedVoice, TRUE)), 1)
                     /\ latestRun' = <<inputText, sourceLanguage, targetLanguage, selectedVoice>>
                ELSE /\ Commit(s, Tail(timer), pending, 0)
                     /\ UNCHANGED latestRun
       ELSE /\ Commit(ClearOutputs(Cur), Tail(timer), pending, 0)
            /\ UNCHANGED latestRun
    /\ localStorage' = IF inputText \notin BlankTexts THEN CoreActionStorage(Cur) ELSE localStorage
    /\ UNCHANGED <<mounted, captureVars, playbackVars>>

\* the steps in which the clock advances
TickSteps == {DebounceMs \div 2, DebounceMs}

\* ms ms later, as far as the debounce delay tells apart
Later(age, ms) == IF age + ms >= DebounceMs THEN DebounceMs ELSE age + ms

\* ms milliseconds pass with nothing else happening
Tick(ms) ==
    /\ AppStep
    /\ timer' = [k \in DOMAIN timer |-> Later(timer[k], ms)]
    /\ quiet' = Later(quiet, ms)
    /\ UNCHANGED <<reactVars, localStorage, pending, mounted, translateCalls, latestRun,
                   captureVars, playbackVars>>

\* setTimeout(..., 1000): the callback runs no sooner than its delay
DueTimerFires ==
    /\ timer # <<>> /\ Head(timer) >= DebounceMs
    /\ TimerFires

\* a handleTranslate that starts the synthesis without awaiting the phonetic call
AfterTranslateTogether(p, c) ==
    AddCall(AddCall(p \ {c}, [c EXCEPT !.kind = "phonetic"]), [c EXCEPT !.kind = "tts"])

\* the outstanding calls once `await translateText` (457) has resolved and
\* handleTranslate has gone on to `await getPhoneticTranscription` (461)
AfterTranslate(p, c) == AddCall(p \ {c}, [c EXCEPT !.kind = "phonetic"])

\* translateText settles: on success outputText is set and the phonetic call
\* issued, on failure the catch and finally blocks of handleTranslate run
TranslateSettles(c, ok) ==
    /\ AppStep /\ c \in pending /\ c.kind = "translate"
    /\ IF ok
       THEN Commit([Cur EXCEPT !.outputText = Translated(c.text, c.from, c.to)], timer,
                   AfterTranslate(pending, c), 0)
       ELSE Commit([Cur EXCEPT !.error = "Translation failed", !.isLoading = FALSE], timer,
                   pending \ {c}, 0)
    /\ UNCHANGED <<localStorage, mounted, latestRun, captureVars, playbackVars>>

\* getPhoneticTranscription settles: on success phoneticText is set and
\* handleGenerateAudio called (outputAudio := null, textToSpeech issued)
PhoneticSettles(c, ok) ==
    /\ AppStep /\ c \in pending /\ c.kind = "phonetic"
    /\ IF ok
       THEN Commit([Cur EXCEPT !.phoneticText = Translated(c.text, c.from, c.to),
                               !.outputAudio = Null], timer,
                   AddCall(pending \ {c}, [c EXCEPT !.kind = "tts"]), 0)
       ELSE Commit([Cur EXCEPT !.error = "Translation failed", !.isLoading = FALSE], timer,
                   pending \ {c}, 0)
    /\ UNCHANGED <<localStorage, mounted, latestRun, captureVars, playbackVars>>

\* textToSpeech settles inside handleGenerateAudio; when handleTranslate
\* awaits it (inRun) its finally block then clears isLoading
TtsSettles(c, ok, d) ==
    /\ AppStep /\ c \in pending /\ c.kind = "tts"
    /\ LET s1 == IF ok
                 THEN [Cur EXCEPT !.outputAudio =
                          Speech(Translated(c.text, c.from, c.to), c.lang, c.voice, d)]
                 ELSE [Cur EXCEPT !.error = "Audio generation failed"]
           s2 == IF c.inRun THEN [s1 EXCEPT !.isLoading = FALSE] ELSE s1
       IN  Commit(s2, timer, pending \ {c}, 0)
    /\ UNCHANGED <<localStorage, mounted, latestRun, captureVars, playbackVars>>

\* ---- form controls ----
\* textarea onChange (782), disabled while recording
SetInputText(t) ==
    /\ AppStep /\ ~isRecording /\ t # inputText /\ t \in InputTexts \cup {""}
    /\ Commit([Cur EXCEPT !.inputText = t], timer, pending, 0)
    /\ UNCHANGED <<localStorage, mounted, latestRun, captureVars, playbackVars>>

\* source language select (757), disabled while recording or playing
SetSourceLanguage(l) ==
    /\ AppStep /\ ~isRecording /\ ~isPlayingAudio /\ l # sourceLanguage
    /\ Commit([Cur EXCEPT !.sourceLanguage = l], timer, pending, 0)
    /\ UNCHANGED <<localStorage, mounted, latestRun, captureVars, playbackVars>>

\* target language select (803), disabled while recording or playing
SetTargetLanguage(l) ==
    /\ AppStep /\ ~isRecording /\ ~isPlayingAudio /\ l # targetLanguage
    /\ Commit([Cur EXCEPT !.targetLanguage = l], timer, pending, 0)
    /\ UNCHANGED <<localStorage, mounted, latestRun, captureVars, playbackVars>>

\* voice select (817-824): disabled without audio, while playing, recording
\* or loading; premium options are disabled on the FREE plan
SetSelectedVoice(v) ==
    /\ AppStep /\ outputAudio # Null /\ ~isPlayingAudio /\ ~isRecording /\ ~isLoading
    /\ v # selectedVoice
    /\ v \in PremiumVoices => subscriptionPlan # "FREE"
    /\ Commit([Cur EXCEPT !.selectedVoice = v], timer, pending, 0)
    /\ UNCHANGED <<localStorage, mounted, latestRun, captureVars, playbackVars>>

\* handleClearInput (685-691); the button shows when inputText && !isRecording
HandleClearInput ==
    /\ AppStep /\ inputText # "" /\ ~isRecording
    /\ Commit([Cur EXCEPT !.inputText = "", !.outputText = NoText, !.phoneticText = NoText,
                          !.outputAudio = Null, !.error = "null"], timer, pending, 0)
    /\ UNCHANGED <<localStorage, mounted, latestRun, captureVars, playbackVars>>

(***************************************************************************)
(* Capture & visualization engine (500-604).                               *)
(***************************************************************************)

\* handleStartRecording calls the model follows
MaxSessions == 2
\* chunks the model lets the chunk list hold
MaxChunks == 2

\* a session right after handleStartRecording has called getUserMedia;
\* lang is the sourceLanguage its onstop closure will use
NewSession(lang) ==
    [lang |-> lang,
     stream |-> "requested",   \* requested, denied, live (tracks running), stopped
     context |-> "none",       \* none, open, closed (the AudioContext and its analyser)
     recorder |-> "none",      \* none, inactive, recording, stopping (stop event queued)
     loop |-> FALSE,           \* an animation frame of this session's draw closure is scheduled
     delivered |-> 0]          \* history: non-empty chunks its dataavailable events have carried

SessionIds == 1..Len(sessions)
Requesting(i) == sessions[i].stream = "requested"
Capturing(i)  == sessions[i].recorder = "recording"
Finalizing(i) == sessions[i].recorder = "stopping"

\* a handleStartRecording without its guard
StartGuardMissing(s) == FALSE

\* the guard of handleStartRecording (543): it returns when this holds
StartGuard(s) == s.isRecording

\* handleStartRecording up to its await (542-545); the button calls it when
\* the rendered isRecording is false (767)
HandleStartRecording ==
    /\ AppStep
    /\ IF StartGuard(Cur)
       THEN /\ lastStart' = "rejected"
            /\ UNCHANGED <<reactVars, timer, pending, translateCalls, quiet, sessions>>
       ELSE /\ Len(sessions) < MaxSessions
            /\ lastStart' = "requested"
            /\ sessions' = Append(sessions, NewSession(sourceLanguage))
            /\ UNCHANGED <<reactVars, timer, pending, translateCalls, quiet>>
    /\ UNCHANGED <<localStorage, mounted, latestRun, mediaRecorderRef, audioChunksRef,
                   audioVisualizerRef, visualizerAnimationRef, stopIgnored, playbackVars>>

ClickStartRecording == ~isRecording /\ HandleStartRecording

\* a catch block that reports the error only
StartCatchKeepsRecording(s) == [s EXCEPT !.error = "Microphone access denied"]

\* the catch block of handleStartRecording (593-596)
StartCatch(s) == [s EXCEPT !.error = "Microphone access denied", !.isRecording = FALSE]

\* getUserMedia rejects: the catch block runs
MicDenied(i) ==
    /\ AppStep /\ i \in SessionIds /\ Requesting(i)
    /\ sessions' = [sessions EXCEPT ![i].stream = "denied"]
    /\ Commit(StartCatch(Cur), timer, pending, 0)
    /\ UNCHANGED <<localStorage, mounted, latestRun, mediaRecorderRef, audioChunksRef,
                   audioVisualizerRef, visualizerAnimationRef, lastStart, stopIgnored, playbackVars>>

\* where the continuation of handleStartRecording may throw once the stream
\* is granted: creating the AudioContext/analyser (547-551), creating the
\* MediaRecorder (560), starting it (592); "ok" when nothing throws
GrantOutcomes == {"ok", "throwContext", "throwRecorder", "throwStart"}

\* drawVisualizer (500-540) starts its loop only when the analyser ref and
\* the canvas exist. The canvas is rendered only while isRecording is
\* rendered true (787): it is there when another session already set
\* isRecording, and otherwise only if setIsRecording(true) was rendered
\* synchronously (updates outside React handlers are not batched by a
\* legacy root), which canvas stands for.
CanvasChoices == IF isRecording THEN {TRUE} ELSE BOOLEAN

\* getUserMedia resolves and the rest of handleStartRecording runs (547-596)
MicGranted(i, outcome, canvas) ==
    /\ AppStep /\ i \in SessionIds /\ Requesting(i)
    /\ outcome \in GrantOutcomes /\ canvas \in CanvasChoices
    /\ LET reachedAnalyser == outcome # "throwContext"
           reachedRecorder == outcome \in {"ok", "throwStart"}
           loops == reachedAnalyser /\ canvas
           s1 == IF reachedAnalyser
                 THEN [Cur EXCEPT !.isRecording = TRUE, !.error = "null", !.inputText = ""]
                 ELSE Cur
           s2 == IF outcome = "ok" THEN s1
                 ELSE StartCatch(s1)
       IN  /\ sessions' = [sessions EXCEPT
                   ![i].stream = "live",
                   ![i].context = IF reachedAnalyser THEN "open" ELSE "none",
                   ![i].recorder = IF outcome = "ok" THEN "recording"
                                   ELSE IF outcome = "throwStart" THEN "inactive" ELSE "none",
                   ![i].loop = loops]
           /\ audioVisualizerRef' = IF reachedAnalyser THEN i ELSE audioVisualizerRef
           /\ visualizerAnimationRef' = IF loops THEN i ELSE visualizerAnimationRef
           /\ mediaRecorderRef' = IF reachedRecorder THEN i ELSE mediaRecorderRef
           /\ audioChunksRef' = IF reachedRecorder THEN <<>> ELSE audioChunksRef
           /\ Commit(s2, timer, pending, 0)
    /\ UNCHANGED <<localStorage, mounted, latestRun, lastStart, stopIgnored, playbackVars>>

\* one animation frame of session i's draw closure (511-513): it requests
\* the next frame, stores its id in the shared ref and reads its analyser
AnimationFrame(i) ==
    /\ AppStep /\ i \in SessionIds /\ sessions[i].loop
    /\ visualizerAnimationRef # i
    /\ visualizerAnimationRef' = i
    /\ UNCHANGED <<reactVars, pipelineVars, sessions, mediaRecorderRef, audioChunksRef,
                   audioVisualizerRef, lastStart, stopIgnored, playbackVars>>

\* mediaRecorder.ondataavailable (564-566) while recording: empty chunks are dropped
DataAvailable(i, size) ==
    /\ AppStep /\ i \in SessionIds /\ Capturing(i)
    /\ size \in {0, 1}
    /\ Len(audioChunksRef) < MaxChunks
    /\ audioChunksRef' = IF size > 0 THEN Append(audioChunksRef, i) ELSE audioChunksRef
    /\ sessions' = [sessions EXCEPT ![i].delivered = IF size > 0 THEN @ + 1 ELSE @]
    /\ UNCHANGED <<reactVars, pipelineVars, mediaRecorderRef, audioVisualizerRef,
                   visualizerAnimationRef, lastStart, stopIgnored, playbackVars>>

\* a guard that looks at the ref only
StopGuardRefOnly(ref, recording) == ref # 0

\* the guard of handleStopRecording (600): stop() is called when this holds
StopGuard(ref, recording) == ref # 0 /\ recording

\* handleStopRecording (599-604); the button calls it when the rendered
\* isRecording is true. stop() queues the recorder's last dataavailable
\* event and its stop event.
HandleStopRecording ==
    /\ AppStep
    /\ IF StopGuard(mediaRecorderRef, isRecording)
       THEN /\ sessions' = [sessions EXCEPT ![mediaRecorderRef].recorder =
                               IF @ = "recording" THEN "stopping" ELSE @]
            /\ Commit([Cur EXCEPT !.isRecording = FALSE], timer, pending, 0)
            /\ UNCHANGED stopIgnored
       ELSE /\ stopIgnored' = TRUE
            /\ UNCHANGED <<reactVars, timer, pending, translateCalls, quiet, sessions>>
    /\ UNCHANGED <<localStorage, mounted, latestRun, mediaRecorderRef, audioChunksRef,
                   audioVisualizerRef, visualizerAnimationRef, lastStart, playbackVars>>

ClickStopRecording == isRecording /\ HandleStopRecording

\* the queued events of a stopped recorder: a last dataavailable with what
\* was gathered (564-566), then onstop (568-590) with the stream and
\* AudioContext of ITS session and the refs all sessions share
RecorderStopped(i, size) ==
    /\ AppStep /\ i \in SessionIds /\ Finalizing(i)
    /\ size \in {0, 1}
    /\ LET chunks == IF size > 0 THEN Append(audioChunksRef, i) ELSE audioChunksRef
           cancelled == visualizerAnimationRef
           afterStop == [sessions EXCEPT ![i].stream = "stopped", ![i].context = "closed",
                                         ![i].recorder = "inactive",
                                         ![i].delivered = IF size > 0 THEN @ + 1 ELSE @]
       IN  /\ size > 0 => Len(audioChunksRef) < MaxChunks
           /\ audioChunksRef' = chunks
           /\ sessions' = IF cancelled # 0
                          THEN [afterStop EXCEPT ![cancelled].loop = FALSE]
                          ELSE afterStop
           /\ audioVisualizerRef' = 0
           /\ IF chunks = <<>>
              THEN UNCHANGED <<reactVars, timer, pending, translateCalls, quiet>>
              ELSE Commit([Cur EXCEPT !.isLoading = TRUE], timer,
                          AddCall(pending, [Call("transcribe", "", sessions[i].lang, "", "", "", FALSE)
                                               EXCEPT !.blob = chunks]), 0)
    /\ UNCHANGED <<localStorage, mounted, latestRun, mediaRecorderRef, visualizerAnimationRef,
                   lastStart, stopIgnored, playbackVars>>

\* what transcribeAudio may resolve to
Transcripts == {"a"}

\* transcribeAudio settles inside onstop (579-589)
TranscribeSettles(c, ok, text) ==
    /\ AppStep /\ c \in pending /\ c.kind = "transcribe"
    /\ text \in Transcripts
    /\ IF ok
       THEN Commit([Cur EXCEPT !.inputText = text, !.isLoading = FALSE], timer,
                   pending \ {c}, 0)
       ELSE Commit([Cur EXCEPT !.error = "Transcription failed", !.outputText = NoText,
                               !.outputAudio = Null, !.isLoading = FALSE], timer,
                   pending \ {c}, 0)
    /\ UNCHANGED <<localStorage, mounted, latestRun, captureVars, playbackVars>>

(***************************************************************************)
(* Playback controller (409-426, 606-676).                                 *)
(***************************************************************************)

\* URL.createObjectURL: a URL that no live handle, ref or element names
FreshUrl(live) ==
    CHOOSE u \in 1..(Cardinality(live) + 3) : u \notin (live \cup {currentAudioUrlRef, audioSrc})

\* a handlePlayAudio that leaves the superseded URL alive
KeepPrevious(live, url) == live

\* URL.revokeObjectURL(currentAudioUrlRef.current), when the ref is set (614-616)
RevokePrevious(live, url) == live \ {url}

\* a handlePlayAudio without the busy half of its guard
PlayGuardIgnoresBusy(s) == s.outputAudio # Null

\* the guard of handlePlayAudio (607): it goes on only with audio and when idle
PlayGuard(s) == s.outputAudio # Null /\ ~s.isPlayingAudio

\* an onerror handler that reports the error but stays busy
OnAudioErrorStaysBusy(s) == [s EXCEPT !.error = "playback error"]

\* audio.onerror (633-637)
OnAudioError(s) == [s EXCEPT !.error = "playback error", !.isPlayingAudio = FALSE]

\* audio.onended (630-632)
OnAudioEnded(s) == [s EXCEPT !.isPlayingAudio = FALSE]

\* useState(1.0) (353), also the defaultPlaybackRate of an audio element
DefaultPlaybackRate == 100

\* audio.src = audioUrl (626) starts a load, which puts the element's rate
\* back to its default; audio.playbackRate = playbackRate (628) follows
RateAtPlay(rate) ==
    LET afterSrc == DefaultPlaybackRate
        afterAssignment == rate
    IN  afterAssignment

\* the catch block of handlePlayAudio (641-644)
PlayCatch(s) == [s EXCEPT !.error = "Failed to play audio", !.isPlayingAudio = FALSE]

\* handlePlayAudio up to its await (606-639)
HandlePlayAudio ==
    /\ AppStep
    /\ IF ~PlayGuard(Cur)
       THEN /\ lastPlay' = "rejected"
            /\ UNCHANGED <<reactVars, timer, pending, translateCalls, quiet, audioElementRef,
                           audioSrc, audioState, currentAudioUrlRef, liveUrls, audioRate>>
       ELSE IF ~atobValid(outputAudio[4])
       THEN \* decode throws: setIsPlayingAudio(true) and the catch are one batch
            /\ lastPlay' = "failed"
            /\ Commit(PlayCatch(Cur), timer, pending, 0)
            /\ UNCHANGED <<audioElementRef, audioSrc, audioState, currentAudioUrlRef, liveUrls,
                           audioRate>>
       ELSE \* the container pcmToWavBlob(decode(outputAudio), 24000, 1, 16) is what url names
            LET live == IF currentAudioUrlRef # 0
                        THEN RevokePrevious(liveUrls, currentAudioUrlRef) ELSE liveUrls
                url  == FreshUrl(live)
            IN  /\ lastPlay' = "started"
                /\ liveUrls' = live \cup {url}
                /\ currentAudioUrlRef' = url
                /\ audioElementRef' = TRUE
                /\ audioSrc' = url
                /\ audioRate' = RateAtPlay(playbackRate)
                /\ audioState' = "starting"
                /\ Commit([Cur EXCEPT !.isPlayingAudio = TRUE], timer, pending, 0)
    /\ UNCHANGED <<localStorage, mounted, latestRun, captureVars, lastDownload, savedFile,
                   playbackRate>>

\* the play button (846) is disabled without audio, while loading and while playing
ClickPlay == outputAudio # Null /\ ~isLoading /\ ~isPlayingAudio /\ HandlePlayAudio

\* min, max and step of the playback-speed input (854-856), in hundredths
RangeMin == 50
RangeMax == 150
RangeStep == 10

\* a range input that hands on whatever value it is given
RangeValueUnsanitized(raw) == raw

\* e.target.value of the input type="range": the value sanitization of the
\* element clamps what it is given to min..max and rounds it to the nearest
\* step from min
RangeValue(raw) ==
    LET clamped == IF raw < RangeMin THEN RangeMin ELSE IF raw > RangeMax THEN RangeMax ELSE raw
    IN  RangeMin + ((clamped - RangeMin + RangeStep \div 2) \div RangeStep) * RangeStep

\* the playback-speed input changes (851-862): setPlaybackRate(parseFloat(
\* e.target.value)), then the effect (409-413) hands the rate to the element
\* if there is one; the input is disabled without audio, while loading and
\* while playing
SetPlaybackRate(raw) ==
    /\ AppStep /\ outputAudio # Null /\ ~isLoading /\ ~isPlayingAudio
    /\ playbackRate' = RangeValue(raw)
    /\ audioRate' = IF audioElementRef /\ playbackRate' # playbackRate
                    THEN playbackRate' ELSE audioRate
    /\ UNCHANGED <<reactVars, pipelineVars, captureVars, audioElementRef, audioSrc, audioState,
                   currentAudioUrlRef, liveUrls, lastPlay, lastDownload, savedFile>>

\* audio.play() resolves: playback has started
PlayResolves ==
    /\ AppStep /\ audioState = "starting"
    /\ audioState' = "playing"
    /\ UNCHANGED <<reactVars, pipelineVars, captureVars, audioElementRef, audioSrc,
                   currentAudioUrlRef, liveUrls, lastPlay, lastDownload, savedFile,
                   playbackRate, audioRate>>

\* audio.play() rejects (the container cannot be played, playback not allowed)
PlayRejects ==
    /\ AppStep /\ audioState = "starting"
    /\ audioState' = "idle"
    /\ Commit(PlayCatch(Cur), timer, pending, 0)
    /\ UNCHANGED <<localStorage, mounted, latestRun, captureVars, audioElementRef, audioSrc,
                   currentAudioUrlRef, liveUrls, lastPlay, lastDownload, savedFile,
                   playbackRate, audioRate>>

\* the element fires ended
AudioEnded ==
    /\ AppStep /\ audioState = "playing"
    /\ audioState' = "idle"
    /\ Commit(OnAudioEnded(Cur), timer, pending, 0)
    /\ UNCHANGED <<localStorage, mounted, latestRun, captureVars, audioElementRef, audioSrc,
                   currentAudioUrlRef, liveUrls, lastPlay, lastDownload, savedFile,
                   playbackRate, audioRate>>

\* the element fires error during playback
AudioError ==
    /\ AppStep /\ audioState = "playing"
    /\ audioState' = "idle"
    /\ Commit(OnAudioError(Cur), timer, pending, 0)
    /\ UNCHANGED <<localStorage, mounted, latestRun, captureVars, audioElementRef, audioSrc,
                   currentAudioUrlRef, liveUrls, lastPlay, lastDownload, savedFile,
                   playbackRate, audioRate>>

\* ---- the download file name (665-666) ----
\* strings are sequences of UTF-16 code units. String.prototype.toUpperCase
\* and toLowerCase on one code unit: ASCII, Latin-1, dotless i (305), long s
\* (383) and the Kelvin sign (8490); sharp s (223) has no one-unit upper case
toUpperCaseUnit(ch) ==
    IF ch \in 97..122 THEN ch - 32
    ELSE IF ch \in 224..254 /\ ch # 247 THEN ch - 32
    ELSE IF ch = 305 THEN 73
    ELSE IF ch = 383 THEN 83
    ELSE ch

toLowerCaseUnit(ch) ==
    IF ch \in 65..90 THEN ch + 32
    ELSE IF ch \in 192..222 /\ ch # 215 THEN ch + 32
    ELSE IF ch = 8490 THEN 107
    ELSE ch

\* Canonicalize of a pattern with the i flag and without the u flag: the
\* upper case, unless that would turn a non-ASCII unit into an ASCII one
Canonicalize(ch) ==
    LET cu == toUpperCaseUnit(ch)
    IN  IF ch >= 128 /\ cu < 128 THEN ch ELSE cu

\* the units of the class [a-z0-9]
ClassUnits == (97..122) \cup (48..57)

\* /[^a-z0-9]/ without the i flag
NegatedClassMatchesExactCase(ch) == ch \notin ClassUnits

\* whether /[^a-z0-9]/gi matches the code unit
NegatedClassMatches(ch) ==
    ~ \E a \in ClassUnits : Canonicalize(a) = Canonicalize(ch)

\* str.replace(/[^a-z0-9]/gi, '_'): with the g flag every match, each one
\* code unit long, is replaced
replace(str) == [k \in DOMAIN str |-> IF NegatedClassMatches(str[k]) THEN 95 ELSE str[k]]

toLowerCase(str) == [k \in DOMAIN str |-> toLowerCaseUnit(str[k])]

safeTargetLanguage(name) == toLowerCase(replace(name))

\* 'translation_' and '.wav'
NamePrefix == <<116, 114, 97, 110, 115, 108, 97, 116, 105, 111, 110, 95>>
NameSuffix == <<46, 119, 97, 118>>

\* a.download (666)
DownloadName(name) == NamePrefix \o safeTargetLanguage(name) \o NameSuffix

\* the code units of the language names
ChineseSimplified == "Chinese (Simplified)"
CodeUnits(l) ==
    IF l = "English" THEN <<69, 110, 103, 108, 105, 115, 104>>
    ELSE IF l = "Spanish" THEN <<83, 112, 97, 110, 105, 115, 104>>
    ELSE <<67, 104, 105, 110, 101, 115, 101, 32, 40, 83, 105, 109, 112, 108, 105, 102,
           105, 101, 100, 41>>

NoFile == [language |-> "", download |-> <<>>, bytes |-> <<>>]
NoNameCall == [targetLanguage |-> <<>>, download |-> <<>>]

\* the object URLs alive after the action of handleDownloadAudio has created
\* its URL (659), clicked the link and revoked the URL again (670)
DownloadUrls(live) ==
    LET url == FreshUrl(live)
    IN  (live \cup {url}) \ {url}

\* a handleDownloadAudio without the plan check
DownloadRefusedNever(s) == FALSE

\* the plan check of handleDownloadAudio (648): it returns early when this holds
DownloadRefused(s) == s.subscriptionPlan = "FREE"

\* handleDownloadAudio (647-676); the button (833) is disabled without
\* audio, while loading and while playing
HandleDownloadAudio ==
    /\ AppStep /\ outputAudio # Null /\ ~isLoading /\ ~isPlayingAudio
    /\ IF DownloadRefused(Cur)
       THEN /\ lastDownload' = "refused"
            /\ Commit([Cur EXCEPT !.error = "upgrade to download", !.isPaymentModalOpen = TRUE],
                      timer, pending, 0)
            /\ UNCHANGED <<localStorage, liveUrls, savedFile>>
       ELSE LET s == CoreActionState(Cur)
            IN  /\ localStorage' = CoreActionStorage(Cur)
                /\ IF ~CoreActionRuns(Cur)
                   THEN /\ lastDownload' = "limit"
                        /\ Commit(s, timer, pending, 0)
                        /\ UNCHANGED <<liveUrls, savedFile>>
                   ELSE IF ~atobValid(outputAudio[4])
                   THEN /\ lastDownload' = "failed"
                        /\ Commit([s EXCEPT !.error = "Failed to prepare audio for download"],
                                  timer, pending, 0)
                        /\ UNCHANGED <<liveUrls, savedFile>>
                   ELSE /\ lastDownload' = "saved"
                        /\ liveUrls' = DownloadUrls(liveUrls)
                        /\ savedFile' =
                               [language |-> targetLanguage,
                                download |-> DownloadName(CodeUnits(targetLanguage)),
                                bytes |-> pcmToWavBlob(decode(outputAudio[4]), 24000, 1, 16)]
                        /\ Commit(s, timer, pending, 0)
    /\ UNCHANGED <<mounted, latestRun, captureVars, audioElementRef, audioSrc, audioState,
                   currentAudioUrlRef, lastPlay, playbackRate, audioRate>>

\* the plans the payment modal offers a button for (currentPlan being cur)
UpgradeTarget(cur, plan) ==
    \/ cur = "FREE" /\ plan \in {"PREMIUM", "PRO"}
    \/ cur = "PREMIUM" /\ plan = "PRO"

\* the upgrade button of the footer (719-724), there unless the plan is PRO
OpenPaymentModal ==
    /\ AppStep /\ subscriptionPlan # "PRO"
    /\ Commit([Cur EXCEPT !.isPaymentModalOpen = TRUE], timer, pending, 0)
    /\ UNCHANGED <<localStorage, mounted, latestRun, captureVars, playbackVars>>

\* handlePurchaseSuccess (693-703), called by the open payment modal
HandlePurchaseSuccess(plan) ==
    /\ AppStep /\ isPaymentModalOpen /\ UpgradeTarget(subscriptionPlan, plan)
    /\ localStorage' = [subscriptionPlan |-> <<plan>>, usageCount |-> <<48>>]
    /\ Commit([Cur EXCEPT !.subscriptionPlan = plan, !.usageCount = 0,
                          !.isPaymentModalOpen = FALSE], timer, pending, 0)
    /\ UNCHANGED <<mounted, latestRun, captureVars, playbackVars>>

\* the element the teardown effect captured when it ran, at mount (416):
\* audioElementRef.current is still null then, the Audio element is created
\* by the first handlePlayAudio
TeardownCapturedAudio == FALSE

\* the component is unmounted: the cleanups of the debounce effect (487-489)
\* and of the teardown effect (417-425) run
Unmount ==
    /\ AppStep
    /\ mounted' = FALSE
    /\ timer' = ClearTimeout(timer)
    /\ audioState' = IF TeardownCapturedAudio THEN "paused" ELSE audioState
    /\ audioSrc' = IF TeardownCapturedAudio THEN 0 ELSE audioSrc
    /\ liveUrls' = IF currentAudioUrlRef # 0 THEN liveUrls \ {currentAudioUrlRef} ELSE liveUrls
    /\ audioRate' = IF TeardownCapturedAudio THEN DefaultPlaybackRate ELSE audioRate
    /\ UNCHANGED <<reactVars, localStorage, pending, translateCalls, quiet, latestRun, captureVars,
                   audioElementRef, currentAudioUrlRef, lastPlay, lastDownload, savedFile,
                   playbackRate>>

(***************************************************************************)
(* The App machine.                                                        *)
(***************************************************************************)
appVars == <<reactVars, pipelineVars, captureVars, playbackVars>>
vars == <<appVars, codecVars, nameVars, mp3Vars>>

\* what the mount effect (370-383) reads from localStorage
StoredUsages == {<<>>}
StoredPlans  == {<<>>, <<"PREMIUM">>, <<"PRO">>}

\* the initial useState and useRef values other than usage and plan
\* (339-367), the debounce effect's first timer pending
UseStateInit ==
    /\ inputText = "" /\ outputText = NoText /\ phoneticText = NoText
    /\ sourceLanguage = DEFAULT_SOURCE_LANGUAGE
    /\ targetLanguage = DEFAULT_TARGET_LANGUAGE
    /\ selectedVoice = DEFAULT_VOICE
    /\ outputAudio = Null
    /\ isLoading = FALSE /\ error = "null" /\ isRecording = FALSE
    /\ isPlayingAudio = FALSE /\ isPaymentModalOpen = FALSE
    /\ timer = <<0>> /\ quiet = 0 /\ pending = {} /\ mounted = TRUE
    /\ translateCalls = 0 /\ latestRun = <<>>
    /\ sessions = <<>> /\ mediaRecorderRef = 0 /\ audioChunksRef = <<>>
    /\ audioVisualizerRef = 0 /\ visualizerAnimationRef = 0 /\ lastStart = "none"
    /\ stopIgnored = FALSE
    /\ audioElementRef = FALSE /\ audioSrc = 0 /\ audioState = "idle"
    /\ currentAudioUrlRef = 0 /\ liveUrls = {}
    /\ lastPlay = "none" /\ lastDownload = "none" /\ savedFile = NoFile
    /\ playbackRate = DefaultPlaybackRate /\ audioRate = DefaultPlaybackRate

\* the component after mount: usage and plan as the mount effect read them
AppInit ==
    /\ UseStateInit
    /\ localStorage \in [usageCount : StoredUsages, subscriptionPlan : StoredPlans]
    /\ usageCount = MountUsage(localStorage.usageCount)
    /\ subscriptionPlan = MountPlan(localStorage.subscriptionPlan)

\* the App machine at rest, while the codec machine runs
AppIdle ==
    /\ AppInit
    /\ localStorage = [usageCount |-> <<>>, subscriptionPlan |-> <<>>]

CodecIdle ==
    /\ codecPc = "idle"
    /\ pcmData = [buffer |-> <<>>, byteOffset |-> 0, byteLength |-> 0]
    /\ wavParams = <<24000, 1, 16>>
    /\ wavBlob = <<>>
    /\ audioBuffer = NoAudioBuffer
    /\ nameCall = NoNameCall
    /\ mp3Call = NoMp3Call

Init == AppInit /\ CodecIdle

\* the remote collaborator settles one outstanding call; textToSpeech
\* answers with one of the given payloads
CallSettlesWith(payloads) ==
    \E c \in pending, ok \in BOOLEAN :
        \/ TranslateSettles(c, ok)
        \/ PhoneticSettles(c, ok)
        \/ \E d \in payloads : TtsSettles(c, ok, d)
        \/ \E text \in Transcripts : TranscribeSettles(c, ok, text)

CallSettles == CallSettlesWith(Payloads)

\* values the playback-speed input is given, in hundredths
RateInputs == {0, 64, 100, 155, 300}

\* what the user does through the controls the page leaves enabled
UserAction ==
    \/ \E t \in InputTexts \cup {""} : SetInputText(t)
    \/ \E l \in Languages : SetSourceLanguage(l)
    \/ \E l \in Languages : SetTargetLanguage(l)
    \/ \E v \in Voices : SetSelectedVoice(v)
    \/ HandleClearInput
    \/ ClickStartRecording
    \/ ClickStopRecording
    \/ ClickPlay
    \/ \E raw \in RateInputs : SetPlaybackRate(raw)
    \/ HandleDownloadAudio
    \/ OpenPaymentModal
    \/ \E plan \in Plans : HandlePurchaseSuccess(plan)

\* what the microphone, the recorder and the display do
CaptureEvent ==
    \/ \E i \in SessionIds : MicDenied(i)
    \/ \E i \in SessionIds, o \in GrantOutcomes, cv \in BOOLEAN : MicGranted(i, o, cv)
    \/ \E i \in SessionIds : AnimationFrame(i)
    \/ \E i \in SessionIds, size \in {0, 1} : DataAvailable(i, size)
    \/ \E i \in SessionIds, size \in {0, 1} : RecorderStopped(i, size)

\* what the audio element does
PlaybackEvent ==
    \/ PlayResolves
    \/ PlayRejects
    \/ AudioEnded
    \/ AudioError

AppNext ==
    \/ UserAction
    \/ TimerFires
    \/ CallSettles
    \/ CaptureEvent
    \/ PlaybackEvent
    \/ Unmount

Next == AppNext

Spec == Init /\ [][Next]_vars

(***************************************************************************)
(* Slices of the App machine: the same actions, with the user confined to  *)
(* one part of the page, so that each part is explored exhaustively.       *)
(***************************************************************************)
\* typing, choosing the voice, and the translation pipeline
PipelineNext ==
    \/ \E t \in InputTexts \cup {""} : SetInputText(t)
    \/ \E v \in Voices : SetSelectedVoice(v)
    \/ HandleClearInput
    \/ TimerFires
    \/ CallSettlesWith({ValidPayload})

PipelineSpec == Init /\ [][PipelineNext]_vars

\* one text typed into the empty textarea and then left alone: every run
\* after the first is one the component starts by itself
SettledNext ==
    \/ inputText = "" /\ \E t \in InputTexts : SetInputText(t)
    \/ TimerFires
    \/ CallSettlesWith(Payloads)

SettledSpec == Init /\ [][SettledNext]_vars

\* the component before its mount effect has run, over what localStorage
\* may hold: nothing, '0', '2', '-1', 'a', '2a', ' 1' as the usage count and
\* nothing, the three plans, 'free', 'GOLD' as the plan
StoredUsageStrings == {<<>>, <<48>>, <<50>>, <<45, 49>>, <<97>>, <<50, 97>>, <<32, 49>>}
StoredPlanStrings == {<<>>, <<"FREE">>, <<"PREMIUM">>, <<"PRO">>, <<"free">>, <<"GOLD">>}

MountInit ==
    /\ UseStateInit
    /\ usageCount = 0 /\ subscriptionPlan = "FREE"
    /\ localStorage \in [usageCount : StoredUsageStrings, subscriptionPlan : StoredPlanStrings]
    /\ codecPc = "mounting"
    /\ pcmData = [buffer |-> <<>>, byteOffset |-> 0, byteLength |-> 0]
    /\ wavParams = <<24000, 1, 16>>
    /\ wavBlob = <<>>
    /\ audioBuffer = NoAudioBuffer
    /\ nameCall = NoNameCall
    /\ mp3Call = NoMp3Call

\* the mount effect (370-383)
MountEffect ==
    /\ codecPc = "mounting"
    /\ codecPc' = "idle"
    /\ usageCount' = MountUsage(localStorage.usageCount)
    /\ subscriptionPlan' = MountPlan(localStorage.subscriptionPlan)
    /\ UNCHANGED <<inputText, outputText, phoneticText, sourceLanguage, targetLanguage,
                   selectedVoice, outputAudio, isLoading, error, isRecording, isPlayingAudio,
                   isPaymentModalOpen, pipelineVars, captureVars, playbackVars,
                   pcmData, wavParams, wavBlob, audioBuffer, nameVars, mp3Vars>>

\* mount, one text, the pipeline with its counted runs, the download link,
\* and purchases
StorageNext ==
    \/ MountEffect
    \/ codecPc = "idle" /\ inputText = "" /\ \E t \in InputTexts : SetInputText(t)
    \/ codecPc = "idle" /\ TimerFires
    \/ codecPc = "idle" /\ CallSettlesWith({ValidPayload})
    \/ codecPc = "idle" /\ HandleDownloadAudio
    \/ codecPc = "idle" /\ OpenPaymentModal
    \/ codecPc = "idle" /\ \E plan \in Plans : HandlePurchaseSuccess(plan)

StorageSpec == MountInit /\ [][StorageNext]_vars

\* the file name computation on its own: the names it is given
MaxNameLen == 3
NameUnits == {48, 65, 90, 97, 32, 40, 95, 201, 233, 305, 8490}
Names == UNION {[1..n -> NameUnits] : n \in 0..MaxNameLen}

NameInit ==
    /\ AppIdle
    /\ codecPc = "nameCall"
    /\ pcmData = [buffer |-> <<>>, byteOffset |-> 0, byteLength |-> 0]
    /\ wavParams = <<24000, 1, 16>>
    /\ wavBlob = <<>>
    /\ audioBuffer = NoAudioBuffer
    /\ nameCall \in {[targetLanguage |-> name, download |-> <<>>] : name \in Names}
    /\ mp3Call = NoMp3Call

CallDownloadName ==
    /\ codecPc = "nameCall"
    /\ codecPc' = "named"
    /\ nameCall' = [nameCall EXCEPT !.download = DownloadName(nameCall.targetLanguage)]
    /\ UNCHANGED <<pcmData, wavParams, wavBlob, audioBuffer, appVars, mp3Vars>>

\* the target language chosen among three, then one text typed, the
\* pipeline and the download link; or the file name computation on a name
\* of its own
DownloadNext ==
    \/ codecPc = "idle" /\ inputText = "" /\ \E t \in InputTexts : SetInputText(t)
    \/ codecPc = "idle" /\ inputText = ""
          /\ \E l \in Languages \cup {ChineseSimplified} : SetTargetLanguage(l)
    \/ codecPc = "idle" /\ TimerFires
    \/ codecPc = "idle" /\ CallSettlesWith(Payloads)
    \/ codecPc = "idle" /\ HandleDownloadAudio
    \/ CallDownloadName

DownloadSpec == (Init \/ NameInit) /\ [][DownloadNext]_vars

\* the pipeline slice with the clock: the debounce timeout runs its callback
\* when its delay has passed
DebounceNext ==
    \/ \E ms \in TickSteps : Tick(ms)
    \/ DueTimerFires
    \/ \E t \in InputTexts : SetInputText(t)
    \/ \E l \in Languages : SetSourceLanguage(l)
    \/ \E v \in Voices : SetSelectedVoice(v)
    \/ CallSettlesWith({ValidPayload})

DebounceSpec == Init /\ [][DebounceNext]_vars

\* the microphone button, the source language and the transcription, with the
\* user acting again before the debounce timer fires
CaptureNext ==
    \/ ClickStartRecording
    \/ ClickStopRecording
    \/ \E l \in Languages : SetSourceLanguage(l)
    \/ CaptureEvent
    \/ CallSettlesWith({ValidPayload})

CaptureSpec == Init /\ [][CaptureNext]_vars

\* the capture slice with handleStartRecording also called while the button
\* shows and calls handleStopRecording
CaptureHandlerNext ==
    \/ CaptureNext
    \/ HandleStartRecording

CaptureHandlerSpec == Init /\ [][CaptureHandlerNext]_vars

\* one text typed or deleted, the pipeline, play, download and unmount
PlaybackNext ==
    \/ \E t \in {"a", ""} : SetInputText(t)
    \/ TimerFires
    \/ CallSettles
    \/ ClickPlay
    \/ HandleDownloadAudio
    \/ PlaybackEvent
    \/ Unmount

PlaybackSpec == Init /\ [][PlaybackNext]_vars

\* the audio element settles every play() and every playback ends or fails
FairPlaybackSpec == PlaybackSpec /\ WF_vars(PlaybackEvent)

\* the playback slice with handlePlayAudio also called while its button is disabled
PlaybackHandlerNext ==
    \/ PlaybackNext
    \/ HandlePlayAudio

PlaybackHandlerSpec == Init /\ [][PlaybackHandlerNext]_vars

\* one text, the pipeline, the playback-speed input and play
RateNext ==
    \/ inputText = "" /\ \E t \in InputTexts : SetInputText(t)
    \/ TimerFires
    \/ CallSettlesWith({ValidPayload})
    \/ \E raw \in RateInputs : SetPlaybackRate(raw)
    \/ ClickPlay
    \/ PlaybackEvent

RateSpec == Init /\ [][RateNext]_vars

\* ---- inputs of the codec machine ----
SampleRates   == {1, 8000, 24000}
ChannelCounts == {1, 2, 65537}
BitDepths     == {8, 12, 16}

\* the products stay within TLC's 32-bit integers
WavParamSets ==
    {p \in SampleRates \X ChannelCounts \X BitDepths : p[2] <= 2000000000 \div (p[1] * p[3])}

CodecInit ==
    /\ AppIdle
    /\ codecPc = "call"
    /\ pcmData \in {a \in Uint8Arrays(MaxLen) : ValidUint8Array(a)}
    /\ wavParams \in WavParamSets
    /\ wavBlob = <<>>
    /\ audioBuffer = NoAudioBuffer
    /\ nameCall = NoNameCall
    /\ mp3Call = NoMp3Call

CallPcmToWavBlob ==
    /\ codecPc = "call"
    /\ codecPc' = "wav"
    /\ wavBlob' = pcmToWavBlob(pcmData, wavParams[1], wavParams[2], wavParams[3])
    /\ UNCHANGED <<pcmData, wavParams, audioBuffer, appVars, nameVars, mp3Vars>>

CodecNext == CallPcmToWavBlob

CodecSpec == CodecInit /\ [][CodecNext]_vars

\* ---- decodeAudioData applied to bounded inputs ----
\* longest ArrayBuffer handed to decodeAudioData
MaxAudioLen == 6
\* byte values of the samples: 0x8000 is -32768, 0xFFFF is -1
AudioBytes == {0, 128, 255}
AudioChannelCounts == {1, 2}

AudioArrays ==
    {[buffer |-> b, byteOffset |-> o, byteLength |-> l] :
        b \in UNION {[1..k -> AudioBytes] : k \in 0..MaxAudioLen},
        o \in 0..MaxAudioLen, l \in 0..MaxAudioLen}

AudioInit ==
    /\ AppIdle
    /\ codecPc = "decodeCall"
    /\ pcmData \in {a \in AudioArrays : ValidUint8Array(a)}
    /\ wavParams \in {<<24000, c, 16>> : c \in AudioChannelCounts}
    /\ wavBlob = <<>>
    /\ audioBuffer = NoAudioBuffer
    /\ nameCall = NoNameCall
    /\ mp3Call = NoMp3Call

CallDecodeAudioData ==
    /\ codecPc = "decodeCall"
    /\ codecPc' = "audio"
    /\ audioBuffer' = decodeAudioData(pcmData, wavParams[2])
    /\ UNCHANGED <<pcmData, wavParams, wavBlob, appVars, nameVars, mp3Vars>>

AudioNext == CallDecodeAudioData

AudioSpec == AudioInit /\ [][AudioNext]_vars

\* ---- reading a container back ----
ReadU16LE(bytes, off) == bytes[off + 1] + 256 * bytes[off + 2]
\* a 32-bit field: low half first
ReadU32LE(bytes, off) == ReadU16LE(bytes, off) + Pow2(16) * ReadU16LE(bytes, off + 2)

(***************************************************************************)
(* Claims about pcmToWavBlob (checked under CodecSpec).                    *)
(***************************************************************************)
SampleSeq  == Elements(pcmData)
SampleRate == wavParams[1]
NumChannels == wavParams[2]
BitsPerSample == wavParams[3]

C10_PayloadVerbatim ==
    codecPc = "wav" =>
        /\ Len(wavBlob) = 44 + Len(SampleSeq)
        /\ \A i \in 1..Len(SampleSeq) : wavBlob[44 + i] = SampleSeq[i]
        /\ SampleSeq = <<>> => (Len(wavBlob) = 44 /\ ReadU32LE(wavBlob, 40) = 0)

\* C11: the header is consistent as stored: the 32-bit byte-rate field
\* equals the 32-bit sample-rate field times the 16-bit block-align field,
\* and the data-size field equals the payload byte length, for every
\* sampleRate, numChannels and bitsPerSample.
C11_StoredFieldsConsistent ==
    codecPc = "wav" =>
        /\ ReadU32LE(wavBlob, 28) = ReadU32LE(wavBlob, 24) * ReadU16LE(wavBlob, 32)
        /\ ReadU32LE(wavBlob, 40) = Len(wavBlob) - 44

\* C12 (AudioSpec): the input, a whole number of signed 16-bit
\* little-endian samples, is decoded without failure into, per channel c,
\* frame i = sample[i * numChannels + c] / 32768, every value in [-1, 1),
\* with as many frames as samples divided by numChannels, truncated.
C12_FramesOfInput ==
    (codecPc = "audio" /\ pcmData.byteLength % 2 = 0) =>
        LET sample == Int16Array(Elements(pcmData))
            frames == Len(sample) \div NumChannels
        IN  /\ audioBuffer.error = "none"
            /\ Len(audioBuffer.channels) = NumChannels
            /\ \A c \in 1..NumChannels :
                  /\ Len(audioBuffer.channels[c]) = frames
                  /\ \A i \in 1..frames :
                        /\ audioBuffer.channels[c][i] = sample[(i - 1) * NumChannels + c]
                        /\ audioBuffer.channels[c][i] >= -Pow2(15)
                        /\ audioBuffer.channels[c][i] < Pow2(15)

(***************************************************************************)
(* Claims about the translation pipeline (checked under PipelineSpec).     *)
(***************************************************************************)
\* C1: once the input has settled, exactly one translation call (then one
\* phonetic, then one synthesis call) is issued and no further one for as
\* long as input text, languages and voice stay unchanged, on every plan.
C1_OneTranslationPerSettle == translateCalls <= 1

\* C4: when all outstanding calls have resolved, the displayed translation,
\* phonetic guide and audio are those of the most recently started run:
\* results of an earlier run that resolve late never overwrite them.
C4_LatestRunShown ==
    (pending = {} /\ latestRun # <<>>) =>
        /\ outputText \in {NoText, Translated(latestRun[1], latestRun[2], latestRun[3])}
        /\ phoneticText \in {NoText, Translated(latestRun[1], latestRun[2], latestRun[3])}
        /\ outputAudio # Null =>
               outputAudio[1] = Translated(latestRun[1], latestRun[2], latestRun[3])

(***************************************************************************)
(* Claims about the capture engine (checked under CaptureSpec).            *)
(***************************************************************************)
\* C2: at any time at most one capture session is Requesting or Capturing.
C2_OneCaptureSession ==
    Cardinality({i \in SessionIds : Requesting(i) \/ Capturing(i)}) <= 1

\* C3: whenever the engine is back in Idle (isRecording false, no stop event
\* pending) every stream, audio context and animation loop that
\* handleStartRecording acquired has been released.
C3_IdleHoldsNoResource ==
    (~isRecording /\ \A i \in SessionIds : ~Finalizing(i)) =>
        \A i \in SessionIds :
            /\ sessions[i].stream # "live"
            /\ sessions[i].context # "open"
            /\ ~sessions[i].loop

(***************************************************************************)
(* Claims about the playback controller.                                   *)
(***************************************************************************)
\* C5 (PlaybackHandlerSpec): a handlePlayAudio call made while
\* isPlayingAudio is true creates no object URL, neither revokes nor
\* replaces currentAudioUrl, leaves the element's source alone and leaves
\* isPlayingAudio true.
C5_BusyPlayRejected ==
    [][(isPlayingAudio /\ HandlePlayAudio) =>
          /\ liveUrls' = liveUrls
          /\ currentAudioUrlRef' = currentAudioUrlRef
          /\ audioSrc' = audioSrc
          /\ audioState' = audioState
          /\ isPlayingAudio']_vars

\* handlePlayAudio has been called during a playback and returned at its guard
C5_Witness ==
    /\ isPlayingAudio
    /\ audioState = "playing"
    /\ lastPlay = "rejected"
    /\ liveUrls = {currentAudioUrlRef}

C7_PlaybackReturnsToIdle ==
    (mounted /\ isPlayingAudio) ~> (~isPlayingAudio \/ ~mounted)

\* a playback that started has failed with an error event and is idle again
C7_Witness ==
    /\ mounted
    /\ lastPlay = "started"
    /\ ~isPlayingAudio
    /\ audioState = "idle"
    /\ error = "playback error"

\* C8 (PlaybackSpec): when the component is unmounted during a playback the
\* element is paused, its source cleared and the live object URL revoked.
C8_UnmountStopsPlayback ==
    (~mounted /\ isPlayingAudio) =>
        /\ audioState = "paused"
        /\ audioSrc = 0
        /\ liveUrls = {}

\* C13 (PlaybackSpec): a decode failure inside handlePlayAudio or
\* handleDownloadAudio has no side effects: the object-URL handle, the
\* element's source and outputAudio are unchanged and only the error
\* message is set.
C13_DecodeFailureSetsOnlyError ==
    [][(\/ ClickPlay /\ lastPlay' = "failed"
        \/ HandleDownloadAudio /\ lastDownload' = "failed")
       => /\ liveUrls' = liveUrls
          /\ currentAudioUrlRef' = currentAudioUrlRef
          /\ audioSrc' = audioSrc
          /\ outputAudio' = outputAudio
          /\ error' \in {"Failed to play audio", "Failed to prepare audio for download"}
          /\ [Cur EXCEPT !.error = "null"]' = [Cur EXCEPT !.error = "null"]
          /\ localStorage' = localStorage]_vars

\* C14 (CaptureHandlerSpec): a handleStartRecording call made while
\* isRecording is true is a no-op: no getUserMedia call (no new session, so
\* no stream, context, analyser or recorder), and the chunk list, the
\* recorder ref, the input text and the error are unchanged.
C14_BusyStartIsNoOp ==
    [][(isRecording /\ HandleStartRecording) =>
          /\ sessions' = sessions
          /\ audioChunksRef' = audioChunksRef
          /\ mediaRecorderRef' = mediaRecorderRef
          /\ audioVisualizerRef' = audioVisualizerRef
          /\ inputText' = inputText
          /\ error' = error
          /\ isRecording']_vars

\* handleStartRecording has returned at its guard during a capture
C14_Witness ==
    /\ lastStart = "rejected"
    /\ isRecording
    /\ \E i \in SessionIds : Capturing(i)

\* C15 (CaptureSpec): the stop event of a session whose chunks total zero
\* bytes makes no transcription call, sets neither isLoading nor an error,
\* releases the session's stream, audio context and animation loop, and
\* leaves the engine Idle.
C15_EmptyStopReleases ==
    [][\A i \in SessionIds :
          (RecorderStopped(i, 0) /\ audioChunksRef' = <<>>) =>
              /\ pending' = pending
              /\ isLoading' = isLoading
              /\ error' = error
              /\ sessions'[i].stream = "stopped"
              /\ sessions'[i].context = "closed"
              /\ ~sessions'[i].loop
              /\ ~isRecording']_vars

\* C16 (CaptureSpec): the stop event of a session with a non-empty blob
\* calls transcribeAudio exactly once, with that session's blob and the
\* source language; when the call settles isLoading is false, on success
\* the input text is the transcript, on failure 'Transcription failed' is
\* reported and the input text is unchanged.
C16_StopTranscribesOnce ==
    [][/\ \A i \in SessionIds, size \in {0, 1} :
             (RecorderStopped(i, size) /\ audioChunksRef' # <<>>) =>
                 \E c \in pending' :
                     /\ c \notin pending
                     /\ pending' = pending \cup {c}
                     /\ c.kind = "transcribe"
                     /\ c.blob = audioChunksRef'
                     /\ \A k \in 1..Len(c.blob) : c.blob[k] = i
                     /\ c.from = sourceLanguage
       /\ \A c \in pending, ok \in BOOLEAN, text \in Transcripts :
             TranscribeSettles(c, ok, text) =>
                 /\ ~isLoading'
                 /\ ok => inputText' = text
                 /\ ~ok => (error' = "Transcription failed" /\ inputText' = inputText)]_vars

\* C17 (SettledSpec): when translation and phonetic guide of a run have
\* succeeded and its synthesis fails, then after the run has ended the
\* translated text and the phonetic text are shown, outputAudio is null,
\* the error is 'Audio generation failed' and isLoading is false.
C17_SynthesisFailureKeepsTexts ==
    [][\A c \in pending, d \in Payloads :
          (c.inRun /\ TtsSettles(c, FALSE, d)) =>
              /\ outputText' = Translated(c.text, c.from, c.to)
              /\ phoneticText' = Translated(c.text, c.from, c.to)
              /\ outputAudio' = Null
              /\ error' = "Audio generation failed"
              /\ ~isLoading']_vars

\* C18 (SettledSpec): when the translation or the phonetic stage of a run
\* fails, no later stage of that run is invoked, an error is surfaced
\* (for the translation stage, 'Translation failed') and outputText,
\* phoneticText and outputAudio are all empty after the run has ended.
C18_StageFailureClearsResults ==
    [][\A c \in pending :
          (TranslateSettles(c, FALSE) \/ PhoneticSettles(c, FALSE)) =>
              /\ pending' = pending \ {c}
              /\ error' # "null"
              /\ c.kind = "translate" => error' = "Translation failed"
              /\ outputText' = NoText
              /\ phoneticText' = NoText
              /\ outputAudio' = Null]_vars

\* C19: a translateText call is issued only after input text, languages and
\* voice have been unchanged for the full 1000 ms; a change of any of them
\* cancels the pending timeout and, unless a recording is in progress, sets
\* a new one; never more than one debounce timeout is pending
C19_QuietPeriodBeforeTranslation ==
    [][/\ (\E c \in pending' \ pending : c.kind = "translate") => quiet >= DebounceMs
       /\ QuietDeps(Cur)' # QuietDeps(Cur) => timer' = IF isRecording' THEN <<>> ELSE <<0>>
       /\ Len(timer') <= 1]_vars

\* the second text typed has stayed for the whole delay and its translation
\* has just been issued
C19_Witness ==
    /\ \E c \in pending : c.kind = "translate"
    /\ translateCalls = 1 /\ quiet >= DebounceMs /\ inputText = "b" /\ outputText = NoText

\* C20: the file handed to the browser is named 'translation_' + N + '.wav',
\* N being the target language with every code unit outside a-z, A-Z, 0-9
\* turned into one '_' and the letters A-Z lowered; for 'Chinese
\* (Simplified)' that is 'translation_chinese__simplified_.wav'; its bytes
\* are pcmToWavBlob of the decoded current audio at 24000 Hz, mono, 16 bit
C20_DownloadFile ==
    [][LET N(name) == [k \in DOMAIN name |->
                         IF name[k] \in (97..122) \cup (48..57) THEN name[k]
                         ELSE IF name[k] \in 65..90 THEN name[k] + 32
                         ELSE 95]
          FileName(name) == NamePrefix \o N(name) \o NameSuffix
          chinese == NamePrefix \o <<99, 104, 105, 110, 101, 115, 101, 95, 95, 115, 105,
                                      109, 112, 108, 105, 102, 105, 101, 100, 95>> \o NameSuffix
       IN  /\ (HandleDownloadAudio /\ lastDownload' = "saved") =>
                  /\ savedFile'.download = FileName(CodeUnits(targetLanguage))
                  /\ targetLanguage = ChineseSimplified => savedFile'.download = chinese
                  /\ savedFile'.bytes = pcmToWavBlob(decode(outputAudio[4]), 24000, 1, 16)
           /\ CallDownloadName =>
                  nameCall'.download = FileName(nameCall.targetLanguage)]_vars

\* the audio of a translation into Chinese (Simplified) has been downloaded
C20_Witness ==
    /\ lastDownload = "saved" /\ savedFile.language = ChineseSimplified
    /\ Len(savedFile.bytes) > 44

\* C21: when handleStopRecording has stopped a session (isRecording goes
\* false), that session's stream tracks are stopped, its audio context is
\* closed and its rendering loop is cancelled in the same step
C21_StopReleasesSynchronously ==
    [][(HandleStopRecording /\ isRecording /\ mediaRecorderRef # 0) =>
          /\ sessions'[mediaRecorderRef].stream = "stopped"
          /\ sessions'[mediaRecorderRef].context = "closed"
          /\ ~sessions'[mediaRecorderRef].loop]_vars

\* C22: while a session is Capturing, an animation frame of its draw
\* closure is scheduled
C22_LoopRunsWhileCapturing ==
    \A i \in SessionIds : Capturing(i) => sessions[i].loop

\* C23: once onstop has cleared the analyser and closed the audio context of
\* a session, no animation frame of that session's draw closure is scheduled
C23_NoLoopAfterRelease ==
    \A i \in SessionIds : sessions[i].context = "closed" => ~sessions[i].loop

C25_InvalidStoredDefaults ==
    [][MountEffect =>
          /\ (\/ localStorage.usageCount = <<>>
              \/ \E k \in DOMAIN localStorage.usageCount :
                     localStorage.usageCount[k] \notin 48..57) => usageCount' = 0
          /\ (\/ localStorage.subscriptionPlan = <<>>
              \/ localStorage.subscriptionPlan[1] \notin Plans) => subscriptionPlan' = "FREE"]_vars

C27_StagesInSequence ==
    [][LET issued == {c \in pending' \ pending : c.inRun}
           settled == pending \ pending'
           SameRun(c, d) == [c EXCEPT !.kind = "", !.n = 0] = [d EXCEPT !.kind = "", !.n = 0]
       IN  /\ Cardinality(issued) <= 1
           /\ \A c \in issued :
                  /\ c.kind = "phonetic" =>
                         /\ \E t \in settled : t.kind = "translate" /\ SameRun(t, c)
                         /\ outputText' = Translated(c.text, c.from, c.to)
                  /\ c.kind = "tts" =>
                         /\ \E t \in settled : t.kind = "phonetic" /\ SameRun(t, c)
                         /\ phoneticText' = Translated(c.text, c.from, c.to)
                  /\ c.kind = "translate" => settled = {}]_vars

\* a run has reached its synthesis call, the two earlier stages shown
C27_Witness ==
    /\ \E c \in pending : c.inRun /\ c.kind = "tts"
    /\ Cardinality(pending) = 1
    /\ outputText # NoText /\ phoneticText = outputText

\* C28: when getUserMedia rejects, isRecording is false and the error
\* 'Microphone access denied' is shown afterwards, and the request has
\* created no stream, audio context, recorder or rendering loop and has set
\* none of the refs
C28_DenialReturnsToIdle ==
    [][\A i \in SessionIds : MicDenied(i) =>
          /\ ~isRecording' /\ error' = "Microphone access denied"
          /\ sessions'[i] = [NewSession(sessions[i].lang) EXCEPT !.stream = "denied"]
          /\ \A j \in SessionIds \ {i} : sessions'[j] = sessions[j]
          /\ UNCHANGED <<mediaRecorderRef, audioChunksRef, audioVisualizerRef,
                         visualizerAnimationRef, pending, isLoading>>]_vars

\* a request has been denied and the error is on display
C28_Witness ==
    /\ \E i \in SessionIds : sessions[i].stream = "denied"
    /\ error = "Microphone access denied" /\ ~isRecording

\* one run of the pipeline, then one press of play with what the audio element
\* does after it, the microphone button and the recorder
ExclusionNext ==
    \/ inputText = "" /\ outputAudio = Null /\ SetInputText("a")
    \/ outputAudio = Null /\ TimerFires
    \/ outputAudio = Null /\ CallSettlesWith({ValidPayload})
    \/ currentAudioUrlRef = 0 /\ ClickPlay
    \/ PlaybackEvent
    \/ outputAudio # Null /\ ClickStartRecording
    \/ ClickStopRecording
    \/ CaptureEvent

ExclusionSpec == Init /\ [][ExclusionNext]_vars

\* C29: a capture session and a playback session are never active at the
\* same time: isRecording and isPlayingAudio are never both true
C29_CaptureExcludesPlayback == ~(isRecording /\ isPlayingAudio)

\* the chunks a Blob is built from when they are n chunks of session i
ChunksOf(i, n) == [k \in 1..n |-> i]

\* C30: the blob finalized when a session's recorder stops is built from
\* exactly the non-empty chunks that session's dataavailable events carried:
\* none of another session, none of its own missing
C30_BlobIsOwnChunks ==
    [][\A i \in SessionIds, size \in {0, 1} : RecorderStopped(i, size) =>
          audioChunksRef' = ChunksOf(i, sessions'[i].delivered)]_vars

\* the capture slice with handleStopRecording also called while the button
\* shows and calls handleStartRecording
StopHandlerNext ==
    \/ CaptureNext
    \/ HandleStopRecording

StopHandlerSpec == Init /\ [][StopHandlerNext]_vars

\* C31: a handleStopRecording call made while isRecording is false or no
\* recorder exists calls no stop() and changes nothing: isRecording, the
\* chunk list, the sessions and their recorders and all other state stay
C31_StopWhileIdleIsNoOp ==
    [][(HandleStopRecording /\ (~isRecording \/ mediaRecorderRef = 0)) =>
          UNCHANGED <<reactVars, pipelineVars, sessions, mediaRecorderRef, audioChunksRef,
                      audioVisualizerRef, visualizerAnimationRef, lastStart, playbackVars,
                      codecVars, nameVars, mp3Vars>>]_vars

\* a stop request has been ignored while a recorder that is still recording
\* is in the ref
C31_Witness ==
    /\ stopIgnored /\ ~isRecording
    /\ mediaRecorderRef # 0 /\ sessions[mediaRecorderRef].recorder = "recording"

\* the remote calls of kind k among the outstanding calls p
CallsOfKind(p, k) == {c \in p : c.kind = k}

\* the output on display is that of the latest run, whose text and languages
\* are still the current ones, and the voice has been changed since
OnlyVoiceChanged ==
    /\ latestRun # <<>>
    /\ <<inputText, sourceLanguage, targetLanguage>> = SubSeq(latestRun, 1, 3)
    /\ selectedVoice # latestRun[4]
    /\ outputText = Translated(latestRun[1], latestRun[2], latestRun[3])

\* C32: changing only the voice while output text and audio are present
\* issues exactly one synthesis call, for the current output text with the
\* new voice and the target language, and neither then nor when the debounce
\* timer fires afterwards is a translation issued or a usage counted
C32_VoiceChangeRegeneratesOnly ==
    [][/\ \A v \in Voices : (SetSelectedVoice(v) /\ outputText # NoText) =>
             /\ pending' = AddCall(pending, Call("tts", outputText[1], outputText[2],
                                                 outputText[3], targetLanguage, v, FALSE))
             /\ usageCount' = usageCount
       /\ (TimerFires /\ OnlyVoiceChanged) =>
             /\ CallsOfKind(pending', "translate") = CallsOfKind(pending, "translate")
             /\ usageCount' = usageCount]_vars

\* C33: on FREE and PREMIUM usageCount never exceeds the plan's limit and
\* every translation or download that handleCoreAction runs adds exactly 1
\* to it (a refused one adds nothing); on PRO every requested action runs
\* and usageCount does not change
C33_UsageCounting ==
    [][LET translated == /\ TimerFires
                         /\ CallsOfKind(pending', "translate") # CallsOfKind(pending, "translate")
           downloaded == HandleDownloadAudio /\ lastDownload' \in {"saved", "failed"}
           called     == \/ TimerFires /\ inputText \notin BlankTexts
                         \/ HandleDownloadAudio /\ subscriptionPlan # "FREE"
           ran        == translated \/ downloaded
       IN  /\ subscriptionPlan' # "PRO" => usageCount' <= PlanLimit(subscriptionPlan')
           /\ (subscriptionPlan # "PRO" /\ ran) => usageCount' = usageCount + 1
           /\ (subscriptionPlan # "PRO" /\ called /\ ~ran) => usageCount' = usageCount
           /\ subscriptionPlan = "PRO" => (usageCount' = usageCount /\ (called => ran))]_vars

\* on PREMIUM the limit has been reached by translations and a download
C33_Witness ==
    /\ subscriptionPlan = "PREMIUM" /\ usageCount = PREMIUM_TRANSLATION_LIMIT
    /\ latestRun # <<>> /\ lastDownload = "saved"

\* C34: when usageCount has reached the limit of a FREE or PREMIUM plan, a
\* translation or download handed to handleCoreAction does not happen (no
\* call is issued, no output changes, no file is made), usageCount and the
\* stored count stay, the usage-limit error is set and the payment modal opens
C34_RefusedAtLimit ==
    [][LET called == \/ TimerFires /\ inputText \notin BlankTexts
                     \/ HandleDownloadAudio /\ subscriptionPlan # "FREE"
       IN  (/\ called /\ subscriptionPlan # "PRO"
            /\ usageCount >= PlanLimit(subscriptionPlan)) =>
               /\ pending' = pending /\ translateCalls' = translateCalls
               /\ UNCHANGED <<outputText, phoneticText, outputAudio, isLoading>>
               /\ UNCHANGED <<liveUrls, savedFile>>
               /\ usageCount' = usageCount /\ localStorage' = localStorage
               /\ error' = "usage limit" /\ isPaymentModalOpen']_vars

\* a download has been refused on PREMIUM at the limit
C34_Witness ==
    /\ subscriptionPlan = "PREMIUM" /\ usageCount = PREMIUM_TRANSLATION_LIMIT
    /\ lastDownload = "limit" /\ error = "usage limit" /\ isPaymentModalOpen

\* C35: isLoading is true while a call of a pipeline run or a transcription
\* call is outstanding, also when runs overlap, and false once no call is
\* outstanding
C35_LoadingWhileInFlight ==
    /\ (\E c \in pending : c.inRun \/ c.kind = "transcribe") => isLoading
    /\ pending = {} => ~isLoading

\* C36: whenever outputAudio is not null and no call is outstanding,
\* outputText is not empty and outputAudio is what textToSpeech returned for
\* the current outputText, target language and voice; so after a clear or
\* an emptied input a synthesis call that resolves late leaves no audio
C36_AudioMatchesOutput ==
    (outputAudio # Null /\ pending = {}) =>
        /\ outputText # NoText
        /\ outputAudio[1] = outputText
        /\ outputAudio[2] = targetLanguage
        /\ outputAudio[3] = selectedVoice

\* C37: on FREE a download request makes no file and no object URL, leaves
\* usageCount and the stored count alone, sets the upgrade error and opens
\* the payment modal; on PREMIUM a download below the limit adds exactly 1
\* to usageCount (at the limit nothing is saved or counted); on PRO a
\* download never changes usageCount
C37_DownloadByPlan ==
    [][HandleDownloadAudio =>
          /\ subscriptionPlan = "FREE" =>
                /\ lastDownload' = "refused"
                /\ UNCHANGED <<liveUrls, savedFile, usageCount, localStorage>>
                /\ error' = "upgrade to download" /\ isPaymentModalOpen'
          /\ subscriptionPlan = "PREMIUM" =>
                IF usageCount < PREMIUM_TRANSLATION_LIMIT
                THEN usageCount' = usageCount + 1 /\ lastDownload' \in {"saved", "failed"}
                ELSE UNCHANGED <<usageCount, savedFile>> /\ lastDownload' = "limit"
          /\ subscriptionPlan = "PRO" =>
                usageCount' = usageCount /\ lastDownload' \in {"saved", "failed"}]_vars

\* a download has been refused on the FREE plan
C37_Witness ==
    /\ subscriptionPlan = "FREE" /\ lastDownload = "refused" /\ savedFile = NoFile
    /\ error = "upgrade to download" /\ isPaymentModalOpen

\* one typed text and one run of the pipeline, with the microphone button
\* and the recorder at any time before, during and after the run
RecordingRunNext ==
    \/ inputText = "" /\ latestRun = <<>> /\ SetInputText("a")
    \/ latestRun = <<>> /\ TimerFires
    \/ CallSettlesWith({ValidPayload})
    \/ ClickStartRecording
    \/ ClickStopRecording
    \/ CaptureEvent

RecordingRunSpec == Init /\ [][RecordingRunNext]_vars

\* the calls of the pipeline among the outstanding calls p
PipelineCalls(p) == {c \in p : c.kind \in {"translate", "phonetic", "tts"}}

\* C38: when the timer callback finds the input empty or only whitespace it
\* issues no call, counts no usage and clears outputText, phoneticText and
\* outputAudio; and while a recording is in progress no translation,
\* phonetic or synthesis call is issued and no usage is counted
C38_NoCallsWhenBlankOrRecording ==
    [][/\ (TimerFires /\ inputText \in BlankTexts) =>
             /\ pending' = pending /\ usageCount' = usageCount
             /\ outputText' = NoText /\ phoneticText' = NoText /\ outputAudio' = Null
       /\ isRecording =>
             /\ PipelineCalls(pending') \subseteq PipelineCalls(pending)
             /\ usageCount' = usageCount]_vars

(***************************************************************************)
(* pcmToMp3Blob (utils.ts 108-128). The samples are told apart by their    *)
(* index in dataInt16; the encoder is lamejs, of which the function uses   *)
(* only whether each returned buffer is empty.                             *)
(***************************************************************************)
\* const sampleBlockSize (114)
sampleBlockSize == 1152

\* byte lengths of pcmData.buffer: 0, 1, 1151 .. 1153, 2304, 2305, 3456 and
\* 3457 samples, and an odd number of bytes
Mp3BufferLengths == {0, 2, 3, 2302, 2304, 2306, 4608, 4610, 6912, 6914}

\* mp3buf.length of a buffer the encoder returns, as far as the code looks at it
EncoderOutputs == {0, 1}

RangeError == -1

\* new Int16Array(buffer).length (109): a RangeError for an odd byte length
Int16ArrayLength(byteLength) ==
    IF byteLength % 2 = 0 THEN byteLength \div 2 ELSE RangeError

\* dataInt16.subarray(begin, end) (116) as the index range [begin, end) it views
subarray(length, begin, end) ==
    <<IF begin < length THEN begin ELSE length, IF end < length THEN end ELSE length>>

\* a loop that steps one sample short of a block
NextBlockOverlapping(i) == i + sampleBlockSize - 1

\* the loop step i += sampleBlockSize (115)
NextBlock(i) == i + sampleBlockSize

\* if (mp3buf.length > 0) mp3Data.push(mp3buf) (118-120, 123-125)
PushOutput(mp3Data, size, call) == IF size > 0 THEN Append(mp3Data, call) ELSE mp3Data

Mp3Init ==
    /\ AppIdle
    /\ codecPc = "mp3Call"
    /\ pcmData = [buffer |-> <<>>, byteOffset |-> 0, byteLength |-> 0]
    /\ wavParams = <<24000, 1, 16>>
    /\ wavBlob = <<>>
    /\ audioBuffer = NoAudioBuffer
    /\ nameCall = NoNameCall
    /\ mp3Call \in {[NoMp3Call EXCEPT !.bufferLength = b] : b \in Mp3BufferLengths}

\* the call up to the loop (109-114)
CallPcmToMp3Blob ==
    /\ codecPc = "mp3Call"
    /\ LET length == Int16ArrayLength(mp3Call.bufferLength)
       IN  IF length = RangeError
           THEN codecPc' = "mp3Threw" /\ UNCHANGED mp3Call
           ELSE codecPc' = "mp3Loop" /\ mp3Call' = [mp3Call EXCEPT !.length = length, !.i = 0]
    /\ UNCHANGED <<pcmData, wavParams, wavBlob, audioBuffer, appVars, nameVars>>

\* one iteration of the loop (115-121); the encoder returns size bytes
EncodeBlock(size) ==
    /\ codecPc = "mp3Loop" /\ mp3Call.i < mp3Call.length
    /\ size \in EncoderOutputs
    /\ LET sampleChunk == subarray(mp3Call.length, mp3Call.i, mp3Call.i + sampleBlockSize)
       IN  mp3Call' = [mp3Call EXCEPT
                          !.calls = Append(@, [op |-> "encodeBuffer", begin |-> sampleChunk[1],
                                               end |-> sampleChunk[2], size |-> size]),
                          !.mp3Data = PushOutput(@, size, Len(mp3Call.calls) + 1),
                          !.i = NextBlock(@)]
    /\ UNCHANGED <<codecPc, pcmData, wavParams, wavBlob, audioBuffer, appVars, nameVars>>

\* after the loop (122-127): flush, and the Blob of what was pushed
Flush(size) ==
    /\ codecPc = "mp3Loop" /\ ~(mp3Call.i < mp3Call.length)
    /\ size \in EncoderOutputs
    /\ codecPc' = "mp3Done"
    /\ LET pushed == PushOutput(mp3Call.mp3Data, size, Len(mp3Call.calls) + 1)
       IN  mp3Call' = [mp3Call EXCEPT
                          !.calls = Append(@, [op |-> "flush", begin |-> 0, end |-> 0,
                                               size |-> size]),
                          !.mp3Data = pushed,
                          !.blob = pushed]
    /\ UNCHANGED <<pcmData, wavParams, wavBlob, audioBuffer, appVars, nameVars>>

Mp3Next ==
    \/ CallPcmToMp3Blob
    \/ \E size \in EncoderOutputs : EncodeBlock(size)
    \/ \E size \in EncoderOutputs : Flush(size)

Mp3Spec == Mp3Init /\ [][Mp3Next]_vars

\* the numbers of the calls in c that returned a non-empty buffer, in call order
NonEmptyCalls(c) == SelectSeq([k \in 1..Len(c) |-> k], LAMBDA k : c[k].size > 0)

====
